---- MODULE Spec2Model ----
(***************************************************************************)
(* Thermo-Virtual: the App component of src/App.jsx as a state machine.    *)
(*                                                                         *)
(* The component's state is the pair of React state cells `config` and     *)
(* `mat` and the memoized `physics` result.  Every value the physics block *)
(* computes is a JavaScript Number, i.e. an IEEE-754 binary64 value; the   *)
(* arithmetic below is binary64 arithmetic (53-bit significand, round to   *)
(* nearest, ties to even, signed zeros, infinities, NaN), carried out on   *)
(* multi-limb naturals because the significand does not fit a TLC integer. *)
(***************************************************************************)
EXTENDS Integers, Sequences, FiniteSets, TLC

(***************************************************************************)
(* Naturals of arbitrary size: little-endian sequences of 15-bit limbs     *)
(* without high zero limbs (zero is the empty sequence).                   *)
(***************************************************************************)
LimbBits == 15
Base == 2 ^ LimbBits

BLimb(a, i) == IF i <= Len(a) THEN a[i] ELSE 0

RECURSIVE BTrim(_)
BTrim(a) ==
  IF a = <<>> THEN a
  ELSE IF a[Len(a)] = 0 THEN BTrim(SubSeq(a, 1, Len(a) - 1)) ELSE a

RECURSIVE BFromNat(_)
BFromNat(n) == IF n = 0 THEN <<>> ELSE <<n % Base>> \o BFromNat(n \div Base)

RECURSIVE BToNatFrom(_, _)
BToNatFrom(a, i) == IF i > Len(a) THEN 0 ELSE a[i] + Base * BToNatFrom(a, i + 1)

BToNat(a) == BToNatFrom(a, 1)

RECURSIVE BAddFrom(_, _, _, _)
BAddFrom(a, b, i, c) ==
  IF i > Len(a) /\ i > Len(b)
  THEN (IF c = 0 THEN <<>> ELSE <<c>>)
  ELSE LET t == BLimb(a, i) + BLimb(b, i) + c
       IN  <<t % Base>> \o BAddFrom(a, b, i + 1, t \div Base)

BAdd(a, b) == BAddFrom(a, b, 1, 0)

\* a - b for a >= b
RECURSIVE BSubFrom(_, _, _, _)
BSubFrom(a, b, i, c) ==
  IF i > Len(a) THEN <<>>
  ELSE LET t == a[i] - BLimb(b, i) - c
       IN  IF t < 0 THEN <<t + Base>> \o BSubFrom(a, b, i + 1, 1)
                    ELSE <<t>> \o BSubFrom(a, b, i + 1, 0)

BSub(a, b) == BTrim(BSubFrom(a, b, 1, 0))

\* -1, 0, 1 as a < b, a = b, a > b
RECURSIVE BCmpFrom(_, _, _)
BCmpFrom(a, b, i) ==
  IF i = 0 THEN 0
  ELSE IF a[i] < b[i] THEN -1
  ELSE IF a[i] > b[i] THEN 1
  ELSE BCmpFrom(a, b, i - 1)

BCmp(a, b) ==
  IF Len(a) < Len(b) THEN -1
  ELSE IF Len(a) > Len(b) THEN 1
  ELSE BCmpFrom(a, b, Len(a))

\* a * d for a single limb d
RECURSIVE BMulSmallFrom(_, _, _, _)
BMulSmallFrom(a, d, i, c) ==
  IF i > Len(a) THEN (IF c = 0 THEN <<>> ELSE <<c>>)
  ELSE LET t == a[i] * d + c
       IN  <<t % Base>> \o BMulSmallFrom(a, d, i + 1, t \div Base)

BMulSmall(a, d) == IF d = 0 THEN <<>> ELSE BMulSmallFrom(a, d, 1, 0)

BZeros(n) == [i \in 1..n |-> 0]

RECURSIVE BMulFrom(_, _, _)
BMulFrom(a, b, j) ==
  IF j > Len(b) THEN <<>>
  ELSE BAdd(IF b[j] = 0 THEN <<>> ELSE BZeros(j - 1) \o BMulSmall(a, b[j]),
            BMulFrom(a, b, j + 1))

BMul(a, b) == IF a = <<>> \/ b = <<>> THEN <<>> ELSE BMulFrom(a, b, 1)

\* a * 2^n
BShl(a, n) ==
  IF a = <<>> THEN <<>>
  ELSE BZeros(n \div LimbBits) \o BMulSmall(a, 2 ^ (n % LimbBits))

\* floor(a / 2^n)
BShr(a, n) ==
  LET w == n \div LimbBits
      r == n % LimbBits
      d == IF w >= Len(a) THEN <<>> ELSE SubSeq(a, w + 1, Len(a))
  IN  BTrim([i \in 1..Len(d) |->
               (d[i] \div (2 ^ r)) + (BLimb(d, i + 1) % (2 ^ r)) * (2 ^ (LimbBits - r))])

RECURSIVE SmallBitLen(_)
SmallBitLen(n) == IF n = 0 THEN 0 ELSE 1 + SmallBitLen(n \div 2)

BBitLen(a) ==
  IF a = <<>> THEN 0 ELSE LimbBits * (Len(a) - 1) + SmallBitLen(a[Len(a)])

BOdd(a) == a # <<>> /\ a[1] % 2 = 1

\* One quotient limb of (rb / d) for rb = r * Base, r < d, d's top limb at least
\* Base / 2: <<limb, remainder>>.  The estimate from the two top limbs is at
\* most two too large; BDivFix lowers it until the product fits.
RECURSIVE BDivFix(_, _, _, _)
BDivFix(qh, t, rb, d) ==
  IF BCmp(t, rb) > 0 THEN BDivFix(qh - 1, BSub(t, d), rb, d)
  ELSE <<qh, BSub(rb, t)>>

Least(a, b) == IF a < b THEN a ELSE b

BDivTry(qh, rb, d) == BDivFix(qh, BMulSmall(d, qh), rb, d)

BDivEst(rb, d) ==
  BDivTry(Least(Base - 1, (BLimb(rb, Len(d) + 1) * Base + BLimb(rb, Len(d))) \div d[Len(d)]),
          rb, d)

BDivLimb(r, d) == BDivEst(IF r = <<>> THEN <<>> ELSE <<0>> \o r, d)

\* n quotient limbs of (r * Base^n) / d, appended below acc: <<limbs, remainder>>
RECURSIVE BDivLimbs(_, _, _, _)
BDivLimbs(r, d, n, acc) ==
  IF n = 0 THEN <<acc, r>>
  ELSE LET st == BDivLimb(r, d)
       IN  BDivLimbs(st[2], d, n - 1, <<st[1]>> \o acc)

(***************************************************************************)
(* JavaScript Numbers (IEEE-754 binary64).  A value is a record            *)
(*   [k, s, m, e]                                                          *)
(* k = "nan" | "inf" | "zero" | "fin", s the sign bit, and for "fin" the   *)
(* value is (-1)^s * m * 2^e with m a Prec-bit natural (2^52 <= m < 2^53). *)
(* The other kinds carry m = <<>>, e = 0, so that equal values are equal   *)
(* records.  Exponent overflow gives an infinity; no quantity of the       *)
(* physics block comes near the subnormal range, which is not modelled.    *)
(***************************************************************************)
Prec == 53
MaxExp == 1024

NaN == [k |-> "nan", s |-> 0, m |-> <<>>, e |-> 0]
Inf(s) == [k |-> "inf", s |-> s, m |-> <<>>, e |-> 0]
Zero(s) == [k |-> "zero", s |-> s, m |-> <<>>, e |-> 0]

Pack(s, m, e) ==
  IF e + Prec > MaxExp THEN Inf(s) ELSE [k |-> "fin", s |-> s, m |-> m, e |-> e]

SignXor(a, b) == (a + b) % 2

\* The binary64 nearest to (-1)^s * M * 2^e (ties to even); sticky says that
\* a nonzero part below M's last bit was already cut off.  RoundCut has the
\* d low bits to drop and q = floor(M / 2^d); RoundUp has c, the comparison
\* of the dropped bits with one half; RoundPack renormalizes after a carry.
RoundPack(s, q, e) ==
  IF BBitLen(q) > Prec THEN Pack(s, BShr(q, 1), e + 1) ELSE Pack(s, q, e)

RoundUp(s, q, e, c, sticky) ==
  RoundPack(s,
            IF c > 0 \/ (c = 0 /\ (sticky \/ BOdd(q))) THEN BAdd(q, <<1>>) ELSE q,
            e)

RoundCut(s, M, e, sticky, d, q) ==
  RoundUp(s, q, e + d, BCmp(BSub(M, BShl(q, d)), BShl(<<1>>, d - 1)), sticky)

RoundLen(s, M, e, sticky, L) ==
  IF L <= Prec
  THEN Pack(s, BShl(M, Prec - L), e - (Prec - L))
  ELSE RoundCut(s, M, e, sticky, L - Prec, BShr(M, L - Prec))

RoundInt(s, M, e, sticky) == RoundLen(s, M, e, sticky, BBitLen(M))

\* The binary64 nearest to (-1)^s * (ma / mb) * 2^e, ma and mb Prec-bit:
\* both are shifted to fill their limbs, then one quotient bit and four
\* quotient limbs are taken; a nonzero remainder is the sticky bit.
NormShift == 4 * LimbBits - Prec

DivRound(s, e, q0, st) ==
  RoundInt(s, BTrim(st[1] \o <<q0>>), e - 4 * LimbBits, st[2] # <<>>)

DivNorm(s, n, d, e) ==
  DivRound(s, e,
           IF BCmp(n, d) >= 0 THEN 1 ELSE 0,
           BDivLimbs(IF BCmp(n, d) >= 0 THEN BSub(n, d) ELSE n, d, 4, <<>>))

DivFin(s, ma, mb, e) == DivNorm(s, BShl(ma, NormShift), BShl(mb, NormShift), e)

\* The binary64 nearest to (-1)^s * (N / D) * 2^e for naturals N, D > 0 of
\* at most Prec bits.
RoundRat(s, N, D, e) ==
  DivFin(s, BShl(N, Prec - BBitLen(N)), BShl(D, Prec - BBitLen(D)),
         e - (Prec - BBitLen(N)) + (Prec - BBitLen(D)))

\* a / b
Div(a, b) ==
  IF a.k = "nan" \/ b.k = "nan" THEN NaN
  ELSE IF a.k = "inf" THEN (IF b.k = "inf" THEN NaN ELSE Inf(SignXor(a.s, b.s)))
  ELSE IF b.k = "inf" THEN Zero(SignXor(a.s, b.s))
  ELSE IF a.k = "zero" THEN (IF b.k = "zero" THEN NaN ELSE Zero(SignXor(a.s, b.s)))
  ELSE IF b.k = "zero" THEN Inf(SignXor(a.s, b.s))
  ELSE DivFin(SignXor(a.s, b.s), a.m, b.m, a.e - b.e)

\* a * b
Mul(a, b) ==
  IF a.k = "nan" \/ b.k = "nan" THEN NaN
  ELSE IF a.k = "inf" \/ b.k = "inf"
       THEN (IF a.k = "zero" \/ b.k = "zero" THEN NaN ELSE Inf(SignXor(a.s, b.s)))
  ELSE IF a.k = "zero" \/ b.k = "zero" THEN Zero(SignXor(a.s, b.s))
  ELSE RoundInt(SignXor(a.s, b.s), BMul(a.m, b.m), a.e + b.e, FALSE)

\* a + b; AddAligned has the significands A, B at the common exponent lo and
\* their comparison c
AddAligned(sa, sb, A, B, lo, c) ==
  IF sa # sb /\ c = 0 THEN Zero(0)
  ELSE RoundInt(IF sa = sb \/ c > 0 THEN sa ELSE sb,
                IF sa = sb THEN BAdd(A, B)
                ELSE IF c > 0 THEN BSub(A, B) ELSE BSub(B, A),
                lo, FALSE)

AddShifted(sa, sb, A, B, lo) == AddAligned(sa, sb, A, B, lo, BCmp(A, B))

AddFin(a, b, lo) == AddShifted(a.s, b.s, BShl(a.m, a.e - lo), BShl(b.m, b.e - lo), lo)

Add(a, b) ==
  IF a.k = "nan" \/ b.k = "nan" THEN NaN
  ELSE IF a.k = "inf"
       THEN (IF b.k = "inf" /\ b.s # a.s THEN NaN ELSE a)
  ELSE IF b.k = "inf" THEN b
  ELSE IF a.k = "zero"
       THEN (IF b.k = "zero" THEN Zero(IF a.s = 1 /\ b.s = 1 THEN 1 ELSE 0) ELSE b)
  ELSE IF b.k = "zero" THEN a
  ELSE AddFin(a, b, Least(a.e, b.e))

Neg(a) == IF a.k = "nan" THEN a ELSE [a EXCEPT !.s = 1 - a.s]

\* a - b
Sub(a, b) == Add(a, Neg(b))

\* The Number of an integer
FromInt(n) ==
  IF n = 0 THEN Zero(0)
  ELSE RoundInt(IF n < 0 THEN 1 ELSE 0, BFromNat(IF n < 0 THEN 0 - n ELSE n), 0, FALSE)

(***************************************************************************)
(* Decimal numerals: the text of a numeric literal of the source or of an  *)
(* <input>'s value, [neg, digits, scale] standing for -?digits / 10^scale  *)
(* ("0.0005" is [FALSE, 5, 4]).  ToNumber is the conversion of such a text *)
(* to the nearest binary64 (a literal's value; Number(e.target.value)).    *)
(***************************************************************************)
Dec(n, p) == [neg |-> n < 0, digits |-> IF n < 0 THEN 0 - n ELSE n, scale |-> p]

ToNumber(d) ==
  IF d.digits = 0 THEN Zero(IF d.neg THEN 1 ELSE 0)
  ELSE RoundRat(IF d.neg THEN 1 ELSE 0, BFromNat(d.digits), BFromNat(10 ^ d.scale), 0)

Lit(n, p) == ToNumber(Dec(n, p))

\* a === b, a < b, a <= b on Numbers
NumEq(a, b) ==
  /\ a.k # "nan"
  /\ b.k # "nan"
  /\ (a = b \/ (a.k = "zero" /\ b.k = "zero"))

IsNegative(d) == d.k \in {"fin", "inf"} /\ d.s = 1

NumLt(a, b) == IsNegative(Sub(a, b))

NumLe(a, b) == NumLt(a, b) \/ NumEq(a, b)

IsFinite(a) == a.k \in {"zero", "fin"}

\* ToBoolean of a Number: the operand test of ||
Truthy(a) == a.k \notin {"nan", "zero"}

(***************************************************************************)
(* Math.log.  ECMA-262 leaves its value implementation-approximated; the   *)
(* special cases are exact (NaN and negative arguments give NaN, a zero    *)
(* gives -Infinity, 1 gives +0, +Infinity gives +Infinity) and any other   *)
(* argument gives a finite nonzero value with the sign of ln x, computed   *)
(* here in FxBits-bit fixed point from x = f * 2^k, 1 <= f < 2:            *)
(*   ln x = k ln 2 + 2 atanh((f - 1) / (f + 1)).                           *)
(***************************************************************************)
FxBits == 14
FxOne == 2 ^ FxBits
FxLn2 == (69315 * FxOne) \div 100000

FxLnMantissa(f) ==
  LET z  == ((f - FxOne) * FxOne) \div (f + FxOne)
      z2 == (z * z) \div FxOne
      p3 == (z * z2) \div FxOne
      p5 == (p3 * z2) \div FxOne
      p7 == (p5 * z2) \div FxOne
  IN  2 * (z + p3 \div 3 + p5 \div 5 + p7 \div 7)

One == FromInt(1)

LogPack(k, t) ==
  RoundInt(IF k < 0 THEN 1 ELSE 0,
           BFromNat(IF t = 0 THEN 1 ELSE IF t < 0 THEN 0 - t ELSE t),
           0 - FxBits, FALSE)

LogFin(m, k) == LogPack(k, k * FxLn2 + FxLnMantissa(BToNat(BShr(m, Prec - 1 - FxBits))))

Log(a) ==
  IF a.k = "nan" THEN NaN
  ELSE IF a.k = "zero" THEN Inf(1)
  ELSE IF a.s = 1 THEN NaN
  ELSE IF a.k = "inf" THEN Inf(0)
  ELSE IF a = One THEN Zero(0)
  ELSE LogFin(a.m, a.e + Prec - 1)

(***************************************************************************)
(* Number.prototype.toFixed(1): the decimal text with one fraction digit.  *)
(* n is the integer nearest to 10 |x| (the larger one on a tie); the text  *)
(* is the sign (for x < 0), n's digits but the last, ".", the last digit.  *)
(* NaN and the infinities give "NaN", "Infinity", "-Infinity".  A text is  *)
(* a record [kind, neg, int, frac]; kind = "num" for digits.               *)
(***************************************************************************)
Fixed1(neg, int, frac) == [kind |-> "num", neg |-> neg, int |-> int, frac |-> frac]
TextNaN == [kind |-> "NaN", neg |-> FALSE, int |-> 0, frac |-> 0]
TextInfinity(neg) == [kind |-> "Infinity", neg |-> neg, int |-> 0, frac |-> 0]

TextOfTenths(neg, n) == Fixed1(neg, n \div 10, n % 10)

toFixed1(a) ==
  IF a.k = "nan" THEN TextNaN
  ELSE IF a.k = "inf" THEN TextInfinity(a.s = 1)
  ELSE IF a.k = "zero" THEN Fixed1(FALSE, 0, 0)
  ELSE TextOfTenths(a.s = 1,
         IF a.e >= 0 THEN BToNat(BShl(BMulSmall(a.m, 10), a.e))
         ELSE BToNat(BShr(BAdd(BMulSmall(a.m, 10), BShl(<<1>>, 0 - a.e - 1)), 0 - a.e)))

(***************************************************************************)
(* The App component.                                                      *)
(***************************************************************************)
VARIABLES
  heap,     \* the live configuration objects: object identity -> record
  config,   \* the identity of the object the `config` state cell holds
  mat,      \* the `mat` state cell
  physics,  \* the value useMemo holds: {Q, LMTD, U, data, Efficiency}
  raised    \* what the last evaluation of the physics block threw ("none")

vars == <<heap, config, mat, physics, raised>>

\* How many sample positions (besides the initial one) each control offers.
Samples == 1

\* The numeric literals of the physics block
Num005 == Lit(5, 2)
Num50 == Lit(50, 0)
Num100 == Lit(100, 0)
Num40 == Lit(40, 0)
Num25 == Lit(25, 0)
Num15 == Lit(15, 0)
Num11 == Lit(11, 1)
Num1000 == Lit(1000, 0)

materials ==
  << [name |-> "Copper",   k |-> Lit(401, 0), color |-> "#b87333"],
     [name |-> "Silver",   k |-> Lit(429, 0), color |-> "#e5e7eb"],
     [name |-> "Steel",    k |-> Lit(50, 0),  color |-> "#94a3b8"],
     [name |-> "Graphite", k |-> Lit(140, 0), color |-> "#334155"],
     [name |-> "Glass",    k |-> Lit(11, 1),  color |-> "#a5f3fc"],
     [name |-> "PVC",      k |-> Lit(19, 2),  color |-> "#f1f5f9"] >>

InitialConfig ==
  [ model        |-> "ShellTube",
    tempIn       |-> Lit(90, 0),
    flow         |-> Lit(25, 0),
    length       |-> Lit(8, 0),
    radius       |-> Lit(3, 1),
    areaOverride |-> Lit(15, 0),
    fouling      |-> Lit(5, 4) ]

ProfileLength == 11

\* const cleanU = (mat.k / 0.05) * (config.flow / 50)
cleanU(c, m) == Mul(Div(m.k, Num005), Div(c.flow, Num50))

\* U with the fouling resistance left out of the sum
UWithoutFouling(cu, c) == Div(One, Div(One, cu))

\* const U = 1 / ((1 / cleanU) + config.fouling)
U(cu, c) == Div(One, Add(Div(One, cu), c.fouling))

\* const Efficiency = (U / cleanU) * 100
Efficiency(u, cu) == Mul(Div(u, cu), Num100)

\* x || 1.1
OrElse11(x) == IF Truthy(x) THEN x ELSE Num11

\* (config.tempIn - 25) / 15 || 1.1
LogArgument(c) == OrElse11(Div(Sub(c.tempIn, Num25), Num15))

\* const LMTD = (config.tempIn - 40) / Math.log((config.tempIn - 25) / 15 || 1.1)
LMTD(c) == Div(Sub(c.tempIn, Num40), Log(LogArgument(c)))

\* Q with the area taken from the geometry (length) instead of areaOverride
QFromLength(u, c, lmtd) == Div(Mul(Mul(u, c.length), lmtd), Num1000)

\* const Q = (U * config.areaOverride * LMTD) / 1000
Q(u, c, lmtd) == Div(Mul(Mul(u, c.areaOverride), lmtd), Num1000)

\* Array.from({ length: 11 }, (_, i) => ({ dist: i, Hot: ..., Cold: ... }));
\* entry i of the array is element i + 1 of the sequence.
data(c, q) ==
  LET hotStep  == Div(q, Num15)
      coldStep == Div(q, Num25)
  IN  [ j \in 1..ProfileLength |->
          [ dist |-> j - 1,
            Hot  |-> toFixed1(Sub(c.tempIn, Mul(FromInt(j - 1), hotStep))),
            Cold |-> toFixed1(Add(Num25, Mul(FromInt(j - 1), coldStep))) ] ]

\* The body of the useMemo callback, one const after the other
PhysicsResult(c, q, lmtd, u, eff) ==
  [Q |-> q, LMTD |-> lmtd, U |-> u, data |-> data(c, q), Efficiency |-> eff]

PhysicsFromU(c, cu, u, lmtd) == PhysicsResult(c, Q(u, c, lmtd), lmtd, u, Efficiency(u, cu))

PhysicsFromCleanU(c, cu) == PhysicsFromU(c, cu, U(cu, c), LMTD(c))

computePhysics(c, m) == PhysicsFromCleanU(c, cleanU(c, m))

(***************************************************************************)
(* The configurator's controls.  A range input offers min + n * step up to *)
(* max; its value is a decimal text, here in units of 10^-TextScale.  The  *)
(* model offers, per control, the position of the initial value and the    *)
(* first Samples positions of `stops`.                                     *)
(***************************************************************************)
TextScale == 4

Sliders ==
  { [key |-> "tempIn",       min |-> 400000, max |-> 1500000, step |-> 10000,
     first |-> 50, stops |-> <<0, 110, 1>>],
    [key |-> "flow",         min |-> 50000,  max |-> 1000000, step |-> 10000,
     first |-> 20, stops |-> <<40, 0, 95>>],
    [key |-> "areaOverride", min |-> 10000,  max |-> 500000,  step |-> 10000,
     first |-> 14, stops |-> <<49, 0, 9>>],
    [key |-> "fouling",      min |-> 0,      max |-> 100,     step |-> 1,
     first |-> 5,  stops |-> <<100, 1, 0>>],
    [key |-> "length",       min |-> 20000,  max |-> 120000,  step |-> 10000,
     first |-> 6,  stops |-> <<0, 10, 3>>],
    [key |-> "radius",       min |-> 1000,   max |-> 6000,    step |-> 500,
     first |-> 4,  stops |-> <<0, 10, 1>>] }

Slider(key) == CHOOSE item \in Sliders : item.key = key

ModelOptions == <<"ShellTube", "DoublePipe", "Plate", "Finned", "Spiral">>

Fields == {"model", "tempIn", "flow", "length", "radius", "areaOverride", "fouling"}

\* The value texts a range input delivers in the model
Offered(item) ==
  { Dec(item.min + n * item.step, TextScale) :
      n \in { p \in {item.first} \cup { item.stops[i] : i \in 1..Least(Samples, Len(item.stops)) } :
                item.min + p * item.step <= item.max } }

OfferedModels == { ModelOptions[i] : i \in 1..Least(Samples + 1, Len(ModelOptions)) }

\* Number(e.target.value), tabulated over the texts the controls deliver
\* (f @@ f is f; TLC tabulates the sum, where it would evaluate f's body
\* anew at every application)
NumberOf ==
  LET f == [ d \in UNION { Offered(item) : item \in Sliders } |-> ToNumber(d) ]
  IN  f @@ f

NumbersOffered(key) == { NumberOf[d] : d \in Offered(Slider(key)) }

\* The merge done into the first render's configuration (a stale closure)
MergeIntoInitial(snapshot, key, value) == [InitialConfig EXCEPT ![key] = value]

\* { ...config, [key]: value }
MergeField(snapshot, key, value) == [snapshot EXCEPT ![key] = value]

\* No new object: the update written into the live one
SameRef(ref) == ref

\* The identity of a newly created object: none of the live ones
NewRef(ref) == 1 - ref

(***************************************************************************)
(* The configurations and materials the specifications range over, and the *)
(* physics block tabulated over them (the block is a pure expression of    *)
(* its two arguments; the table only saves evaluating it again).           *)
(***************************************************************************)
AppConfigs ==
  { [ model        |-> mo,
      tempIn       |-> t,
      flow         |-> f,
      length       |-> l,
      radius       |-> r,
      areaOverride |-> a,
      fouling      |-> fo ] :
      mo \in OfferedModels,
      t  \in NumbersOffered("tempIn"),
      f  \in NumbersOffered("flow"),
      l  \in NumbersOffered("length"),
      r  \in NumbersOffered("radius"),
      a  \in NumbersOffered("areaOverride"),
      fo \in NumbersOffered("fouling") \cup {Zero(0)} }

\* Arguments of the physics block beyond what the controls deliver: inlet
\* temperatures at and below 25, non-positive flow and area, and materials
\* outside the catalog (one sharing Copper's k, two with a non-positive k).
EngineTempIn == <<Lit(10, 0), Lit(25, 0), Lit(40, 0), Lit(150, 0)>>
EngineFlow == <<Zero(0), Lit(-5, 0), Lit(45, 0)>>
EngineArea == <<Lit(-1, 0), Zero(0)>>

EngineMaterials ==
  { materials[i] : i \in 1..Len(materials) } \cup
  { [name |-> "Alloy", k |-> Lit(401, 0), color |-> "#000000"],
    [name |-> "Void",  k |-> Zero(0),     color |-> "#000000"],
    [name |-> "Anti",  k |-> Lit(-50, 0), color |-> "#000000"] }

EngineConfigs ==
  { [ model        |-> g.model,
      tempIn       |-> t,
      flow         |-> f,
      length       |-> g.length,
      radius       |-> g.radius,
      areaOverride |-> a,
      fouling      |-> fo ] :
      g  \in { InitialConfig,
               [InitialConfig EXCEPT !.model = "Plate", !.length = Lit(2, 0),
                                     !.radius = Lit(6, 1)] },
      t  \in {InitialConfig.tempIn} \cup
             { EngineTempIn[i] : i \in 1..Least(Samples + 2, Len(EngineTempIn)) },
      f  \in {InitialConfig.flow} \cup
             { EngineFlow[i] : i \in 1..Least(Samples + 1, Len(EngineFlow)) },
      a  \in {InitialConfig.areaOverride} \cup
             { EngineArea[i] : i \in 1..Least(Samples, Len(EngineArea)) },
      fo \in {InitialConfig.fouling, Zero(0)} }

PhysicsTable ==
  LET f == [ in \in (AppConfigs \X {materials[1]}) \cup (EngineConfigs \X EngineMaterials) |->
               computePhysics(in[1], in[2]) ]
  IN  f @@ f

PhysicsOf(c, m) == PhysicsTable[<<c, m>>]

(***************************************************************************)
(* Rendering.  useMemo(..., [config, mat]) evaluates the block again when  *)
(* a dependency is not the identical object of the previous render, and    *)
(* keeps the held value otherwise.  No statement of the block throws.      *)
(***************************************************************************)
Render ==
  /\ physics' = IF config' # config \/ mat' # mat
                THEN PhysicsOf(heap'[config'], mat')
                ELSE physics
  /\ raised' = "none"

\* setConfig(next): the cell takes a new object; React renders again before
\* the next input event is handled.
SetConfig(next) ==
  /\ heap' = [x \in {NewRef(config)} |-> next]
  /\ config' = NewRef(config)
  /\ mat' = mat
  /\ Render

\* onChange of the model <select>
ModelSelect(v) ==
  /\ v # heap[config].model
  /\ SetConfig(MergeField(heap[config], "model", v))

\* onChange of a range input
RangeInput(item, d) ==
  /\ NumberOf[d] # heap[config][item.key]
  /\ SetConfig(MergeField(heap[config], item.key, NumberOf[d]))

\* onClick of CLEAN SYSTEM
CleanSystem == SetConfig(MergeField(heap[config], "fouling", Zero(0)))

Init ==
  /\ config = 0
  /\ heap = [x \in {0} |-> InitialConfig]
  /\ mat = materials[1]
  /\ physics = PhysicsOf(InitialConfig, materials[1])
  /\ raised = "none"

Next ==
  \/ \E v \in OfferedModels : ModelSelect(v)
  \/ \E item \in Sliders : \E d \in Offered(item) : RangeInput(item, d)
  \/ CleanSystem

Spec == Init /\ [][Next]_vars

(***************************************************************************)
(* The physics block as a function of arbitrary arguments: each step       *)
(* evaluates it on another configuration or another material.              *)
(***************************************************************************)
EngineConfig(c) ==
  /\ c # heap[config]
  /\ SetConfig(c)

EngineMaterial(m) ==
  /\ m # mat
  /\ mat' = m
  /\ UNCHANGED <<heap, config>>
  /\ Render

NextEngine ==
  \/ \E c \in EngineConfigs : EngineConfig(c)
  \/ \E m \in EngineMaterials : EngineMaterial(m)

SpecEngine == Init /\ [][NextEngine]_vars

(***************************************************************************)
(* Properties.                                                             *)
(***************************************************************************)
\* The configuration of the current render
cur == heap[config]

Between(x, lo, hi) == NumLe(lo, x) /\ NumLe(x, hi)

\* The domain ranges of the four operating parameters
ValidConfiguration(c) ==
  /\ Between(c.tempIn, Num40, Lit(150, 0))
  /\ Between(c.flow, Lit(5, 0), Num100)
  /\ Between(c.areaOverride, One, Num50)
  /\ Between(c.fouling, Zero(0), Lit(1, 2))

CatalogMaterial(m) == \E i \in 1..Len(materials) : materials[i] = m

FiniteResult(p) ==
  /\ IsFinite(p.Q)
  /\ IsFinite(p.LMTD)
  /\ IsFinite(p.U)
  /\ IsFinite(p.Efficiency)
  /\ \A j \in 1..Len(p.data) : p.data[j].Hot.kind = "num" /\ p.data[j].Cold.kind = "num"

\* C1: for every configuration within the domain ranges and every catalog
\* material, no value of the result (U, Efficiency, LMTD, Q, any Hot or Cold
\* sample) is NaN or infinite, the endpoint tempIn = 40 included.
C1_ResultIsFinite ==
  (ValidConfiguration(cur) /\ CatalogMaterial(mat)) => FiniteResult(physics)

\* C2: for every valid configuration and catalog material 0 < U <= cleanU and
\* 0 < Efficiency <= 100, with U = cleanU (Efficiency = 100) exactly when
\* fouling = 0.
C2_FoulingNeverHelps ==
  (ValidConfiguration(cur) /\ CatalogMaterial(mat)) =>
    /\ NumLt(Zero(0), physics.U)
    /\ NumLe(physics.U, cleanU(cur, mat))
    /\ NumLt(Zero(0), physics.Efficiency)
    /\ NumLe(physics.Efficiency, Num100)
    /\ (NumEq(physics.U, cleanU(cur, mat)) <=> NumEq(cur.fouling, Zero(0)))
    /\ (NumEq(physics.Efficiency, Num100) <=> NumEq(cur.fouling, Zero(0)))

\* C3: whenever (tempIn - 25) / 15 is zero or negative, the logarithm is
\* taken of the fallback 1.1 and LMTD is finite.
C3_FallbackOnNonPositiveRatio ==
  NumLe(Div(Sub(cur.tempIn, Num25), Num15), Zero(0)) =>
    /\ LogArgument(cur) = Num11
    /\ IsFinite(physics.LMTD)

\* C4: pressing CLEAN SYSTEM with fouling > 0 gives fouling = 0, leaves every
\* other field and the material as they were, and the result then presented
\* has Efficiency = 100.
C4_CleanSystemResets ==
  [][ (CleanSystem /\ NumLt(Zero(0), cur.fouling)) =>
        /\ heap'[config'].fouling = Zero(0)
        /\ \A f \in Fields \ {"fouling"} : heap'[config'][f] = cur[f]
        /\ mat' = mat
        /\ NumEq(physics'.Efficiency, Num100) ]_vars

\* The configuration after the step is the one before it with `key` set to
\* `value`, in a new object, the old object untouched.
MergedInto(key, value) ==
  /\ heap'[config'][key] = value
  /\ \A f \in Fields \ {key} : heap'[config'][f] = cur[f]
  /\ config' # config
  /\ (config \in DOMAIN heap' => heap'[config] = heap[config])

\* C5: every slider change or model select replaces the configuration by a
\* new snapshot in which exactly the targeted field has the new value and
\* every other field its value in the configuration just before the event;
\* the previous snapshot is not modified in place.
C5_UpdateMergesOneField ==
  [][ /\ \A item \in Sliders : \A d \in Offered(item) :
           RangeInput(item, d) => MergedInto(item.key, NumberOf[d])
      /\ \A v \in OfferedModels : ModelSelect(v) => MergedInto("model", v) ]_vars

\* Two earlier updates (slider, select) both still stand after a third.
C5_Witness ==
  /\ cur.tempIn # InitialConfig.tempIn
  /\ cur.flow # InitialConfig.flow
  /\ cur.model # InitialConfig.model

SameEngineInputs(c1, m1, c2, m2) ==
  /\ c1.tempIn = c2.tempIn
  /\ c1.flow = c2.flow
  /\ c1.areaOverride = c2.areaOverride
  /\ c1.fouling = c2.fouling
  /\ m1.k = m2.k

\* C6: the result is a function of (tempIn, flow, areaOverride, fouling,
\* mat.k) alone: the result held equals the block's value on every
\* configuration and material that agree with the current ones on these
\* five, whatever their model, length, radius, name and color, and whatever
\* was computed before.
C6_ResultDependsOnFiveInputs ==
  \A c \in EngineConfigs : \A m \in EngineMaterials :
    SameEngineInputs(c, m, cur, mat) => physics = PhysicsOf(c, m)

\* A state whose five inputs are shared by another configuration and
\* another material: Plate geometry, the off-catalog material with Copper's k.
C6_Witness ==
  /\ cur.model = "Plate"
  /\ cur.length # InitialConfig.length
  /\ mat.name = "Alloy"
  /\ physics = PhysicsOf(InitialConfig, materials[1])

Positive(x) == x.k = "fin" /\ x.s = 0

\* C7: when k, flow or area is non-positive or non-finite, the computation
\* is refused with a DomainError and no result is returned.
C7_DomainErrorRaised ==
  ~(Positive(mat.k) /\ Positive(cur.flow) /\ Positive(cur.areaOverride)) =>
    raised = "DomainError"

\* The scenario of C8: Copper, flow 25, fouling 0.0005, tempIn 90, area 15
DefaultScenario ==
  /\ mat.k = Lit(401, 0)
  /\ cur.flow = Lit(25, 0)
  /\ cur.fouling = Lit(5, 4)
  /\ cur.tempIn = Lit(90, 0)
  /\ cur.areaOverride = Lit(15, 0)

\* C8 as stated: in the default scenario cleanU = 4010, U is 1553.5 and
\* Efficiency 38.7 to one decimal.
C8_StatedFigures ==
  DefaultScenario =>
    /\ cleanU(cur, mat) = Lit(4010, 0)
    /\ toFixed1(physics.U) = Fixed1(FALSE, 1553, 5)
    /\ toFixed1(physics.Efficiency) = Fixed1(FALSE, 38, 7)

\* C8 as amended: in the default scenario cleanU = 4010, U is 1334.4 and
\* Efficiency 33.3 to one decimal.
C8_DefaultFigures ==
  DefaultScenario =>
    /\ cleanU(cur, mat) = Lit(4010, 0)
    /\ toFixed1(physics.U) = Fixed1(FALSE, 1334, 4)
    /\ toFixed1(physics.Efficiency) = Fixed1(FALSE, 33, 3)

\* The default scenario computed again after input events
C8_Witness ==
  /\ DefaultScenario
  /\ cur.model # InitialConfig.model
  /\ cur.length # InitialConfig.length

\* C9: the profile has exactly 11 entries with dist 0, 1, ..., 10 in order,
\* entry i holding Hot = tempIn - i * (Q / 15) and Cold = 25 + i * (Q / 25)
\* to one decimal, so that entry 0 is Hot = tempIn and Cold = 25.
C9_ProfileShape ==
  /\ Len(physics.data) = ProfileLength
  /\ \A j \in 1..Len(physics.data) :
       /\ physics.data[j].dist = j - 1
       /\ physics.data[j].Hot =
            toFixed1(Sub(cur.tempIn, Mul(FromInt(j - 1), Div(physics.Q, Num15))))
       /\ physics.data[j].Cold =
            toFixed1(Add(Num25, Mul(FromInt(j - 1), Div(physics.Q, Num25))))
  /\ physics.data[1].Hot = toFixed1(cur.tempIn)
  /\ physics.data[1].Cold = toFixed1(Num25)

\* C10: after any sequence of slider, select and CLEAN SYSTEM events the
\* result presented is the physics block applied to the current
\* configuration and material, and nothing was thrown.
C10_ResultNeverStale ==
  /\ physics = computePhysics(cur, mat)
  /\ raised = "none"

\* A state reached through a slider, a select and a CLEAN SYSTEM event
C10_Witness ==
  /\ cur.fouling = Zero(0)
  /\ cur.tempIn # InitialConfig.tempIn
  /\ cur.model # InitialConfig.model
  /\ physics # PhysicsOf(InitialConfig, materials[1])

====
